---------------------------- MODULE Spec2Model ----------------------------
(***************************************************************************)
(* Model of cidTableStream (src/src/index.ts), the asynchronous generator  *)
(* that reads a CID-10 CSV table in chunks and yields one record per       *)
(* complete line.                                                          *)
(*                                                                         *)
(* Text is a sequence of characters.  The characters that matter are ";"   *)
(* and the two control characters of the line break, written "CR" and      *)
(* "LF" here; every other character is an ordinary letter.                 *)
(*                                                                         *)
(* One step of the model is one turn of the Node.js event loop that        *)
(* touches the generator's state: a 'data', 'end' or 'error' callback of   *)
(* the read stream, a setImmediate callback, or a call of next() by the    *)
(* consumer.  The generator's code between two suspension points runs      *)
(* inside one such step (promise continuations are microtasks and run      *)
(* before the next callback).                                              *)
(***************************************************************************)
EXTENDS Integers, Sequences, FiniteSets, TLC

(***************************************************************************)
(* Bounds of the model.                                                    *)
(***************************************************************************)
\* largest number of terminated lines in a file content
MaxLines == 3
\* largest number of characters the stream delivers in one 'data' event
MaxChunk == 4
\* number of next() calls modelled after the generator has finished
MaxLatePulls == 1
\* largest number of consecutive wait checks that find nothing to do
MaxPolls == 1
\* largest number of terminated lines of a file read by two calls at once
MaxTwinLines == 2
\* largest number of terminated lines of a file in the runs with fairness
MaxFairLines == 2
\* largest number of segments a column text is put together from
MaxSegments == 2

(***************************************************************************)
(* Constants of cidTableStream.                                            *)
(***************************************************************************)
\* const LINEBRK = ';\r\n'
LINEBRK == <<";", "CR", "LF">>
\* const SKIPERR = Symbol()
SKIPERR == "SKIPERR"
\* the initial value of streamError (undefined)
NoError == "undefined"
\* the error object the read stream passes to the 'error' callback
EIO == "EIO"
\* the exception of a row parser that rejects a line
ParseError == "ParseError"

(***************************************************************************)
(* String primitives of JavaScript used by the code, with 0-based indices. *)
(***************************************************************************)
Max(S) == CHOOSE x \in S : \A y \in S : y <= x
Min(S) == CHOOSE x \in S : \A y \in S : x <= y

\* String.prototype.slice(from, to) for 0 <= from, to
slice(s, from, to) == SubSeq(s, from + 1, Min({to, Len(s)}))

\* the start indices of the occurrences of t in s
Occurrences(s, t) ==
  { i \in 0 .. (Len(s) - Len(t)) : SubSeq(s, i + 1, i + Len(t)) = t }

\* String.prototype.indexOf
indexOf(s, t) ==
  IF Occurrences(s, t) = {} THEN -1 ELSE Min(Occurrences(s, t))

\* variant of lastIndexOf: the first occurrence instead of the last
lastIndexOfFirst(s, t) ==
  IF Occurrences(s, t) = {} THEN -1 ELSE Min(Occurrences(s, t))

\* String.prototype.lastIndexOf
lastIndexOf(s, t) ==
  IF Occurrences(s, t) = {} THEN -1 ELSE Max(Occurrences(s, t))

\* String.prototype.split with a non-empty separator
RECURSIVE split(_, _)
split(s, sep) ==
  LET i == indexOf(s, sep) IN
  IF i < 0 THEN <<s>>
  ELSE <<slice(s, 0, i)>> \o split(slice(s, i + Len(sep), Len(s)), sep)

(***************************************************************************)
(* Row parsers (the Factory parameter).                                    *)
(***************************************************************************)
\* String.prototype.trim: white space is " ", "CR" and "LF" here
RECURSIVE trim(_)
trim(s) ==
  IF s = <<>> THEN s
  ELSE IF Head(s) \in {" ", "CR", "LF"} THEN trim(Tail(s))
  ELSE IF s[Len(s)] \in {" ", "CR", "LF"} THEN trim(SubSeq(s, 1, Len(s) - 1))
  ELSE s

\* variant of CidRecord: every column is trimmed
CidRecordTrim(row) ==
  LET cols == split(row, <<";">>) IN
  [columns |-> [i \in 1 .. Len(cols) |-> trim(cols[i])]]

\* new CidRecord(row): $columns = row.split(';')
CidRecord(row) == [columns |-> split(row, <<";">>)]

\* "CidRecord" is the default parser; every parser of the repository
\* extends it without a constructor of its own and never throws.
\* "StrictRecord" stands for a caller's parser that rejects a line holding
\* a carriage return.
Factories == {"CidRecord", "StrictRecord"}

FactoryThrows(F, row) ==
  F = "StrictRecord" /\ \E i \in 1 .. Len(row) : row[i] = "CR"

\* variant of skipInit: the first line is not skipped
skipInitFalse == FALSE

\* let skip = true
skipInit == TRUE

VARIABLES
  content,      \* the characters of the file at `path`
  Factory,      \* the row parser passed to cidTableStream
  stream,       \* the read stream: "unopened", "open", "ended", "failed"
  pos,          \* number of characters of content delivered so far
  streamError,  \* let streamError
  streamEnd,    \* let streamEnd
  buffer,       \* let buffer
  rowsQueue,    \* let rowsQueue
  breakLoop,    \* let breakLoop
  skip,         \* let skip
  queue,        \* batches of the resolved queue not yet iterated
  rows,         \* lines of the current completeRows not yet iterated
  pc,           \* where the generator is suspended
  yielded,      \* the records yielded to the consumer so far
  calls,        \* the lines passed to the row parser so far
  raises,       \* the errors thrown to the consumer so far
  splitBrk,     \* a chunk boundary has fallen inside a line break
  latePulls,    \* next() calls answered after the generator finished
  immediates,   \* setImmediate callbacks scheduled and not yet run
  polls,        \* wait checks rescheduled since the last other event
  other,        \* a second cidTableStream call on the same file, if any
  record,       \* a record built by one of the table classes, if any
  result        \* the value read from an accessor of that record

vars == <<content, Factory, stream, pos, streamError, streamEnd, buffer,
          rowsQueue, breakLoop, skip, queue, rows, pc, yielded, calls,
          raises, splitBrk, latePulls, immediates, polls, other, record,
          result>>

\* the variables outside the generator call that the actions of the call
\* do not touch
aux == <<other, record, result>>

\* the state of one cidTableStream call, as a record
Self ==
  [streamError |-> streamError, streamEnd |-> streamEnd, buffer |-> buffer,
   rowsQueue |-> rowsQueue, breakLoop |-> breakLoop, skip |-> skip,
   queue |-> queue, rows |-> rows, pc |-> pc, yielded |-> yielded,
   calls |-> calls, raises |-> raises, immediates |-> immediates]

Set(st) ==
  /\ streamError' = st.streamError
  /\ streamEnd' = st.streamEnd
  /\ buffer' = st.buffer
  /\ rowsQueue' = st.rowsQueue
  /\ breakLoop' = st.breakLoop
  /\ skip' = st.skip
  /\ queue' = st.queue
  /\ rows' = st.rows
  /\ pc' = st.pc
  /\ yielded' = st.yielded
  /\ calls' = st.calls
  /\ raises' = st.raises
  /\ immediates' = st.immediates

\* variant of read: the batch is put at the front of the queue
readUnshift(st, chunk) ==
  LET buf == st.buffer \o chunk
      end == lastIndexOf(buf, LINEBRK)
  IN  IF end >= 0
      THEN [st EXCEPT !.buffer = slice(buf, end + Len(LINEBRK), Len(buf)),
                      !.rowsQueue = <<slice(buf, 0, end)>> \o @]
      ELSE [st EXCEPT !.buffer = buf]

\* variant of read: without a line break the chunk replaces the buffer
readReplace(st, chunk) ==
  LET buf == st.buffer \o chunk
      end == lastIndexOf(buf, LINEBRK)
  IN  IF end >= 0
      THEN [st EXCEPT !.buffer = slice(buf, end + Len(LINEBRK), Len(buf)),
                      !.rowsQueue = Append(@, slice(buf, 0, end))]
      ELSE [st EXCEPT !.buffer = chunk]

\* variant of read: the text after the last line break is dropped
readLoseTail(st, chunk) ==
  LET buf == st.buffer \o chunk
      end == lastIndexOf(buf, LINEBRK)
  IN  IF end >= 0
      THEN [st EXCEPT !.buffer = <<>>,
                      !.rowsQueue = Append(@, slice(buf, 0, end))]
      ELSE [st EXCEPT !.buffer = buf]

\* variant of read: the line break is taken to be ';\r'
readShortBreak(st, chunk) ==
  LET buf == st.buffer \o chunk
      end == lastIndexOf(buf, <<";", "CR">>)
  IN  IF end >= 0
      THEN [st EXCEPT !.buffer = slice(buf, end + 2, Len(buf)),
                      !.rowsQueue = Append(@, slice(buf, 0, end))]
      ELSE [st EXCEPT !.buffer = buf]

\* variant of read: the buffer keeps the last line break
readKeepBreak(st, chunk) ==
  LET buf == st.buffer \o chunk
      end == lastIndexOf(buf, LINEBRK)
  IN  IF end >= 0
      THEN [st EXCEPT !.buffer = slice(buf, end, Len(buf)),
                      !.rowsQueue = Append(@, slice(buf, 0, end))]
      ELSE [st EXCEPT !.buffer = buf]

\* variant of read: the buffer is queued even without a line break
readAlways(st, chunk) ==
  LET buf == st.buffer \o chunk
      end == lastIndexOf(buf, LINEBRK)
  IN  IF end >= 0
      THEN [st EXCEPT !.buffer = slice(buf, end + Len(LINEBRK), Len(buf)),
                      !.rowsQueue = Append(@, slice(buf, 0, end))]
      ELSE [st EXCEPT !.buffer = <<>>, !.rowsQueue = Append(@, buf)]

(***************************************************************************)
(* const read = (chunk) => { ... }                                         *)
(***************************************************************************)
read(st, chunk) ==
  LET buf == st.buffer \o chunk
      end == lastIndexOf(buf, LINEBRK)
  IN  IF end >= 0
      THEN [st EXCEPT !.buffer = slice(buf, end + Len(LINEBRK), Len(buf)),
                      !.rowsQueue = Append(@, slice(buf, 0, end))]
      ELSE [st EXCEPT !.buffer = buf]

\* variant of nextRowsQueue: after the end the check is rescheduled again
nextRowsQueueNoSentinel(st) ==
  IF st.streamError # NoError
  THEN [settle |-> "reject", value |-> st.streamError, st |-> st]
  ELSE IF Len(st.rowsQueue) > 0
  THEN [settle |-> "resolve", value |-> st.rowsQueue,
        st |-> [st EXCEPT !.rowsQueue = <<>>,
                          !.breakLoop = (Len(st.buffer) = 0 /\ st.streamEnd)]]
  ELSE [settle |-> "pending", value |-> <<>>, st |-> st]

\* variant of nextRowsQueue: an empty buffer is taken for the end
nextRowsQueueEndEarly(st) ==
  IF st.streamError # NoError
  THEN [settle |-> "reject", value |-> st.streamError, st |-> st]
  ELSE IF Len(st.rowsQueue) > 0
  THEN [settle |-> "resolve", value |-> st.rowsQueue,
        st |-> [st EXCEPT !.rowsQueue = <<>>,
                          !.breakLoop = (Len(st.buffer) = 0 /\ st.streamEnd)]]
  ELSE IF ~st.streamEnd /\ Len(st.buffer) > 0
  THEN [settle |-> "pending", value |-> <<>>, st |-> st]
  ELSE [settle |-> "reject", value |-> SKIPERR, st |-> st]

\* variant of nextRowsQueue: the queue is looked at before the error
nextRowsQueueQueueFirst(st) ==
  IF Len(st.rowsQueue) > 0
  THEN [settle |-> "resolve", value |-> st.rowsQueue,
        st |-> [st EXCEPT !.rowsQueue = <<>>,
                          !.breakLoop = (Len(st.buffer) = 0 /\ st.streamEnd)]]
  ELSE IF st.streamError # NoError
  THEN [settle |-> "reject", value |-> st.streamError, st |-> st]
  ELSE IF ~st.streamEnd
  THEN [settle |-> "pending", value |-> <<>>, st |-> st]
  ELSE [settle |-> "reject", value |-> SKIPERR, st |-> st]

\* variant of nextRowsQueue: only the oldest batch is handed over
nextRowsQueueFirstOnly(st) ==
  IF st.streamError # NoError
  THEN [settle |-> "reject", value |-> st.streamError, st |-> st]
  ELSE IF Len(st.rowsQueue) > 0
  THEN [settle |-> "resolve", value |-> <<Head(st.rowsQueue)>>,
        st |-> [st EXCEPT !.rowsQueue = <<>>,
                          !.breakLoop = (Len(st.buffer) = 0 /\ st.streamEnd)]]
  ELSE IF ~st.streamEnd
  THEN [settle |-> "pending", value |-> <<>>, st |-> st]
  ELSE [settle |-> "reject", value |-> SKIPERR, st |-> st]

\* variant of nextRowsQueue: an empty queue ends the wait at once
nextRowsQueueNoWait(st) ==
  IF st.streamError # NoError
  THEN [settle |-> "reject", value |-> st.streamError, st |-> st]
  ELSE IF Len(st.rowsQueue) > 0
  THEN [settle |-> "resolve", value |-> st.rowsQueue,
        st |-> [st EXCEPT !.rowsQueue = <<>>,
                          !.breakLoop = (Len(st.buffer) = 0 /\ st.streamEnd)]]
  ELSE [settle |-> "reject", value |-> SKIPERR, st |-> st]

\* variant of nextRowsQueue: breakLoop is set without looking at streamEnd
nextRowsQueueBreakEarly(st) ==
  IF st.streamError # NoError
  THEN [settle |-> "reject", value |-> st.streamError, st |-> st]
  ELSE IF Len(st.rowsQueue) > 0
  THEN [settle |-> "resolve", value |-> st.rowsQueue,
        st |-> [st EXCEPT !.rowsQueue = <<>>,
                          !.breakLoop = (Len(st.buffer) = 0)]]
  ELSE IF ~st.streamEnd
  THEN [settle |-> "pending", value |-> <<>>, st |-> st]
  ELSE [settle |-> "reject", value |-> SKIPERR, st |-> st]

(***************************************************************************)
(* const nextRowsQueue = (resolve, reject) => { ... }                      *)
(* The result tells how the promise settles ("pending": the check was      *)
(* rescheduled with setImmediate) and the state the check leaves.          *)
(***************************************************************************)
nextRowsQueue(st) ==
  IF st.streamError # NoError
  THEN [settle |-> "reject", value |-> st.streamError, st |-> st]
  ELSE IF Len(st.rowsQueue) > 0
  THEN [settle |-> "resolve", value |-> st.rowsQueue,
        st |-> [st EXCEPT !.rowsQueue = <<>>,
                          !.breakLoop = (Len(st.buffer) = 0 /\ st.streamEnd)]]
  ELSE IF ~st.streamEnd
  THEN [settle |-> "pending", value |-> <<>>, st |-> st]
  ELSE [settle |-> "reject", value |-> SKIPERR, st |-> st]

(***************************************************************************)
(* The body of the generator from `try` on.                                *)
(***************************************************************************)
\* variant of throw: the error is reported but the generator can be resumed
throwResumable(st, err) ==
  [st EXCEPT !.pc = "yielded", !.raises = Append(@, err)]

\* an exception leaves the generator: it is finished
throw(st, err) == [st EXCEPT !.pc = "failed", !.raises = Append(@, err)]

\* variant of afterLoop: without the check of streamError after the loop
afterLoopNoCheck(st) == [st EXCEPT !.pc = "done"]

\* if (streamError) { throw streamError } and the end of the function
afterLoop(st) ==
  IF st.streamError # NoError
  THEN throw(st, st.streamError)
  ELSE [st EXCEPT !.pc = "done"]

\* variant of catch: every caught value is thrown again
catchRethrow(st, loopError) == throw(st, loopError)

\* variant of catch: every caught value is ignored
catchSwallow(st, loopError) == afterLoop(st)

\* catch (loopError) { if (loopError !== SKIPERR) throw loopError }
catch(st, loopError) ==
  IF loopError # SKIPERR THEN throw(st, loopError) ELSE afterLoop(st)

RECURSIVE generate(_, _)
RECURSIVE whileLoop(_, _)

\* the two `for` loops, from the point where the next line is fetched
generate(st, F) ==
  IF st.rows # <<>>
  THEN LET row == Head(st.rows)
           s1 == [st EXCEPT !.rows = Tail(@)]
       IN  IF ~st.skip
           THEN IF FactoryThrows(F, row)
                THEN catch([s1 EXCEPT !.calls = Append(@, row)], ParseError)
                ELSE [s1 EXCEPT !.pc = "yielded",
                                !.calls = Append(@, row),
                                !.yielded = Append(@, CidRecord(row))]
           ELSE generate([s1 EXCEPT !.skip = FALSE], F)
  ELSE IF st.queue # <<>>
  THEN generate([st EXCEPT !.rows = split(Head(st.queue), LINEBRK),
                           !.queue = Tail(@)], F)
  ELSE whileLoop(st, F)

\* variant of await: a check that finds nothing schedules two callbacks
awaitTwice(st, F) ==
  LET r == nextRowsQueue(st) IN
  CASE r.settle = "resolve" -> generate([r.st EXCEPT !.queue = r.value], F)
    [] r.settle = "reject"  -> catch(r.st, r.value)
    [] OTHER                -> [r.st EXCEPT !.pc = "waiting",
                                            !.immediates = @ + 2]

\* settling of `await new Promise(nextRowsQueue)` after one check
await(st, F) ==
  LET r == nextRowsQueue(st) IN
  CASE r.settle = "resolve" -> generate([r.st EXCEPT !.queue = r.value], F)
    [] r.settle = "reject"  -> catch(r.st, r.value)
    [] OTHER                -> [r.st EXCEPT !.pc = "waiting",
                                            !.immediates = @ + 1]

\* while (!breakLoop && !streamError) { ... }
whileLoop(st, F) ==
  IF ~st.breakLoop /\ st.streamError = NoError
  THEN await(st, F)
  ELSE afterLoop(st)

(***************************************************************************)
(* File contents: any number of lines up to MaxLines, each followed by     *)
(* the line break, then a tail without line break.                         *)
(***************************************************************************)
LineSet == { <<"a">>, <<>>, <<"b", ";", "CR">> }
TailSet == { <<>>, <<"c">>, <<";", "CR">> }

RECURSIVE Join(_)
Join(ls) == IF ls = <<>> THEN <<>> ELSE Head(ls) \o LINEBRK \o Join(Tail(ls))

Contents ==
  { Join(ls) \o t :
      ls \in UNION { [1 .. n -> LineSet] : n \in 0 .. MaxLines },
      t \in TailSet }

\* values of the variables that are not in use
NoTwin == [pc |-> "absent"]
NoRecord == [class |-> "none"]
NoResult == [accessor |-> "none"]

\* the state of a call before its first next()
InitFirst ==
  /\ content \in Contents
  /\ Factory \in Factories
  /\ stream = "unopened"
  /\ pos = 0
  /\ streamError = NoError
  /\ streamEnd = FALSE
  /\ buffer = <<>>
  /\ rowsQueue = <<>>
  /\ breakLoop = FALSE
  /\ skip = skipInit
  /\ queue = <<>>
  /\ rows = <<>>
  /\ pc = "start"
  /\ yielded = <<>>
  /\ calls = <<>>
  /\ raises = <<>>
  /\ splitBrk = FALSE
  /\ latePulls = 0
  /\ immediates = 0
  /\ polls = 0
  /\ record = NoRecord
  /\ result = NoResult

Init == InitFirst /\ other = NoTwin

\* a boundary at position p of the content falls inside a line break
InsideBreak(p) ==
  \E i \in Occurrences(content, LINEBRK) : i < p /\ p < i + Len(LINEBRK)

(***************************************************************************)
(* Actions.                                                                *)
(***************************************************************************)
\* the first next(): the body runs from its start, creates the read stream
\* and suspends in the first await
Start ==
  /\ pc = "start"
  /\ stream' = "open"
  /\ Set(whileLoop(Self, Factory))
  /\ polls' = 0
  /\ UNCHANGED <<content, Factory, pos, splitBrk, latePulls, aux>>

\* variant of Data: the stream is paused while a batch is queued
DataPaused ==
  /\ stream = "open"
  /\ pos < Len(content)
  /\ rowsQueue = <<>>
  /\ \E n \in 1 .. MaxChunk :
       LET to == Min({pos + n, Len(content)}) IN
       /\ Set(read(Self, SubSeq(content, pos + 1, to)))
       /\ pos' = to
       /\ splitBrk' = (splitBrk \/ InsideBreak(to))
  /\ polls' = 0
  /\ UNCHANGED <<content, Factory, stream, latePulls, aux>>

\* .on('data', read)
Data ==
  /\ stream = "open"
  /\ pos < Len(content)
  /\ \E n \in 1 .. MaxChunk :
       LET to == Min({pos + n, Len(content)}) IN
       /\ Set(read(Self, SubSeq(content, pos + 1, to)))
       /\ pos' = to
       /\ splitBrk' = (splitBrk \/ InsideBreak(to))
  /\ polls' = 0
  /\ UNCHANGED <<content, Factory, stream, latePulls, aux>>

\* variant of End: the end of the stream sets breakLoop
EndBreaks ==
  /\ stream = "open"
  /\ pos = Len(content)
  /\ stream' = "ended"
  /\ streamEnd' = TRUE
  /\ breakLoop' = TRUE
  /\ polls' = 0
  /\ UNCHANGED <<content, Factory, pos, streamError, buffer, rowsQueue,
                 skip, queue, rows, pc, yielded, calls, raises,
                 splitBrk, latePulls, immediates, aux>>

\* variant of End: the end of the stream flushes the buffer as a batch
EndFlush ==
  /\ stream = "open"
  /\ pos = Len(content)
  /\ stream' = "ended"
  /\ streamEnd' = TRUE
  /\ buffer' = <<>>
  /\ rowsQueue' = IF buffer = <<>> THEN rowsQueue ELSE Append(rowsQueue, buffer)
  /\ polls' = 0
  /\ UNCHANGED <<content, Factory, pos, streamError, breakLoop, skip, queue,
                 rows, pc, yielded, calls, raises, splitBrk, latePulls,
                 immediates, aux>>

\* .on('end', () => { streamEnd = true })
End ==
  /\ stream = "open"
  /\ pos = Len(content)
  /\ stream' = "ended"
  /\ streamEnd' = TRUE
  /\ polls' = 0
  /\ UNCHANGED <<content, Factory, pos, streamError, buffer, rowsQueue,
                 breakLoop, skip, queue, rows, pc, yielded, calls, raises,
                 splitBrk, latePulls, immediates, aux>>

\* .on('error', (err) => { streamError = err })
Error ==
  /\ stream \in {"open", "ended"}
  /\ stream' = "failed"
  /\ streamError' = EIO
  /\ polls' = 0
  /\ UNCHANGED <<content, Factory, pos, streamEnd, buffer, rowsQueue,
                 breakLoop, skip, queue, rows, pc, yielded, calls, raises,
                 splitBrk, latePulls, immediates, aux>>

\* setImmediate(() => nextRowsQueue(resolve, reject)): the scheduled
\* callback runs one check of the wait.  The number of consecutive checks
\* that only reschedule themselves is capped at MaxPolls; a stream event
\* is always possible then.
Immediate ==
  /\ pc = "waiting"
  /\ immediates > 0
  /\ nextRowsQueue(Self).settle = "pending" => polls < MaxPolls
  /\ Set(await([Self EXCEPT !.immediates = @ - 1], Factory))
  /\ polls' = IF nextRowsQueue(Self).settle = "pending" THEN polls + 1 ELSE 0
  /\ UNCHANGED <<content, Factory, stream, pos, splitBrk, latePulls, aux>>

\* variant of Pull: streamError is looked at before the next row is taken
PullChecked ==
  /\ pc = "yielded"
  /\ Set(IF streamError # NoError THEN afterLoop(Self)
                                  ELSE generate(Self, Factory))
  /\ polls' = 0
  /\ UNCHANGED <<content, Factory, stream, pos, splitBrk, latePulls, aux>>

\* next() while the generator is suspended at `yield`
Pull ==
  /\ pc = "yielded"
  /\ Set(generate(Self, Factory))
  /\ polls' = 0
  /\ UNCHANGED <<content, Factory, stream, pos, splitBrk, latePulls, aux>>

\* return() while the generator is suspended at `yield` (the consumer
\* leaves its loop early): the generator finishes; there is no `finally`
\* and nothing closes the read stream
Return ==
  /\ pc = "yielded"
  /\ pc' = "returned"
  /\ UNCHANGED <<content, Factory, stream, pos, streamError, streamEnd,
                 buffer, rowsQueue, breakLoop, skip, queue, rows, yielded,
                 calls, raises, splitBrk, latePulls, immediates, polls, aux>>

\* next() on the finished generator: { done: true }, the body does not run
LatePull ==
  /\ pc \in {"done", "failed", "returned"}
  /\ latePulls < MaxLatePulls
  /\ latePulls' = latePulls + 1
  /\ UNCHANGED <<content, Factory, stream, pos, streamError, streamEnd,
                 buffer, rowsQueue, breakLoop, skip, queue, rows, pc,
                 yielded, calls, raises, splitBrk, immediates, polls, aux>>

Next ==
  Start \/ Data \/ End \/ Error \/ Immediate \/ Pull \/ Return \/ LatePull

Spec == Init /\ [][Next]_vars

(***************************************************************************)
(* A consumer that iterates to the end (for await without break), a read   *)
(* stream that goes on to its 'end' or 'error' event and an event loop     *)
(* that runs every scheduled setImmediate callback.                        *)
(***************************************************************************)
PullingNext ==
  Start \/ Data \/ End \/ Error \/ Immediate \/ Pull \/ LatePull

\* whatever can run does run: the consumer's next(), the stream's next
\* event, the scheduled setImmediate callback
Fairness ==
  WF_vars(Start \/ Data \/ End \/ Error \/ Immediate \/ Pull)

FairInit ==
  /\ Init
  /\ Cardinality(Occurrences(content, LINEBRK)) <= MaxFairLines

SpecFair == FairInit /\ [][PullingNext]_vars /\ Fairness

(***************************************************************************)
(* Two calls of cidTableStream on the same file.  Each call has its own    *)
(* closure: its own streamError, streamEnd, buffer, rowsQueue, breakLoop,  *)
(* skip and read stream.  The state of the second call is the record       *)
(* `other`; its events are the same operations applied to that record.     *)
(***************************************************************************)
\* variant of TwinInit: the read stream is created when the function is
\* called
TwinInitEager ==
  [streamError |-> NoError, streamEnd |-> FALSE, buffer |-> <<>>,
   rowsQueue |-> <<>>, breakLoop |-> FALSE, skip |-> skipInit,
   queue |-> <<>>, rows |-> <<>>, pc |-> "start", yielded |-> <<>>,
   calls |-> <<>>, raises |-> <<>>, immediates |-> 0,
   stream |-> "open", pos |-> 0]

TwinInit ==
  [streamError |-> NoError, streamEnd |-> FALSE, buffer |-> <<>>,
   rowsQueue |-> <<>>, breakLoop |-> FALSE, skip |-> skipInit,
   queue |-> <<>>, rows |-> <<>>, pc |-> "start", yielded |-> <<>>,
   calls |-> <<>>, raises |-> <<>>, immediates |-> 0,
   stream |-> "unopened", pos |-> 0]

\* the variables of the first call
first == <<content, Factory, stream, pos, streamError, streamEnd, buffer,
           rowsQueue, breakLoop, skip, queue, rows, pc, yielded, calls,
           raises, splitBrk, latePulls, immediates, polls>>

\* the variables of the table records
tables == <<record, result>>

TwoCallsInit ==
  /\ InitFirst
  /\ Factory = "CidRecord"
  /\ Cardinality(Occurrences(content, LINEBRK)) <= MaxTwinLines
  /\ other = TwinInit

\* the first next() of the second call
Start2 ==
  /\ other.pc = "start"
  /\ other' = [whileLoop(other, Factory) EXCEPT !.stream = "open"]
  /\ UNCHANGED <<first, tables>>

\* variant of Data2: the buffer is a variable of the module, shared by
\* the two calls
Data2Shared ==
  /\ other.pc # "absent"
  /\ other.stream = "open"
  /\ other.pos < Len(content)
  /\ \E n \in 1 .. MaxChunk :
       LET to == Min({other.pos + n, Len(content)})
           st == read([other EXCEPT !.buffer = buffer],
                      SubSeq(content, other.pos + 1, to))
       IN  /\ other' = [st EXCEPT !.pos = to]
           /\ buffer' = st.buffer
  /\ UNCHANGED <<content, Factory, stream, pos, streamError, streamEnd,
                 rowsQueue, breakLoop, skip, queue, rows, pc, yielded, calls,
                 raises, splitBrk, latePulls, immediates, polls, record,
                 result>>

\* 'data' callback of the second call
Data2 ==
  /\ other.pc # "absent"
  /\ other.stream = "open"
  /\ other.pos < Len(content)
  /\ \E n \in 1 .. MaxChunk :
       LET to == Min({other.pos + n, Len(content)}) IN
       other' = [read(other, SubSeq(content, other.pos + 1, to))
                   EXCEPT !.pos = to]
  /\ UNCHANGED <<first, tables>>

\* 'end' callback of the second call
End2 ==
  /\ other.pc # "absent"
  /\ other.stream = "open"
  /\ other.pos = Len(content)
  /\ other' = [other EXCEPT !.stream = "ended", !.streamEnd = TRUE]
  /\ UNCHANGED <<first, tables>>

\* setImmediate callback of the second call
Immediate2 ==
  /\ other.pc = "waiting"
  /\ other.immediates > 0
  /\ other' = await([other EXCEPT !.immediates = @ - 1], Factory)
  /\ UNCHANGED <<first, tables>>

\* next() of the second call while it is suspended at `yield`
Pull2 ==
  /\ other.pc = "yielded"
  /\ other' = generate(other, Factory)
  /\ UNCHANGED <<first, tables>>

\* the chunk, end, wait and pull events of the two calls, in any order
TwoCallsNext ==
  \/ Start \/ Data \/ End \/ Immediate \/ Pull
  \/ Start2 \/ Data2 \/ End2 \/ Immediate2 \/ Pull2

SpecTwoCalls == TwoCallsInit /\ [][TwoCallsNext]_vars

TypeOK ==
  /\ pc \in {"start", "waiting", "yielded", "done", "failed", "returned"}
  /\ immediates \in 0 .. 1
  /\ polls \in 0 .. MaxPolls
  /\ stream \in {"unopened", "open", "ended", "failed"}
  /\ streamError \in {NoError, EIO}
  /\ pos \in 0 .. Len(content)

(***************************************************************************)
(* The table classes: records built from a line and their accessors.      *)
(***************************************************************************)
\* static readonly DESCRIPTION = 3 (Cid10Chapter)
ChapterDESCRIPTION == 3
\* static readonly ABBREVIATION = 4 (Cid10Chapter)
ChapterABBREVIATION == 4
\* static readonly EXCLUDED = 5 (Cid10Category)
CategoryEXCLUDED == 5
\* static readonly EXCLUDED = 7 (Cid10Subcategory)
SubcategoryEXCLUDED == 7

\* the value `undefined`, and the TypeError of a method call on it
Undefined == <<"undefined">>
TypeError == <<"TypeError">>

\* this.$columns[i]
Column(rec, i) ==
  IF i + 1 <= Len(rec.columns) THEN rec.columns[i + 1] ELSE Undefined

\* character classes of the regular expressions: \s and [IVXLCDM]
WhiteSpace == {" ", "CR", "LF"}
Roman == {"I", "V", "X", "L", "C", "D", "M"}
\* the word "Capítulo"; "i'" is its accented letter
Capitulo == <<"C", "a", "p", "i'", "t", "u", "l", "o">>

\* the end of the longest run of characters of Class in s that starts
\* after the first i characters (a greedy Class*)
RECURSIVE RunEnd(_, _, _)
RunEnd(s, i, Class) ==
  IF i < Len(s) /\ s[i + 1] \in Class THEN RunEnd(s, i + 1, Class) ELSE i

\* length of the match of /^Capítulo\s+[IVXLCDM]+\s*-\s*/ in s, or -1
DescriptionPrefix(s) ==
  LET a == Len(Capitulo)
      b == RunEnd(s, a, WhiteSpace)
      c == RunEnd(s, b, Roman)
      d == RunEnd(s, c, WhiteSpace)
  IN  IF Len(s) < a \/ SubSeq(s, 1, a) # Capitulo THEN -1
      ELSE IF b = a \/ c = b THEN -1
      ELSE IF d < Len(s) /\ s[d + 1] = "-"
      THEN RunEnd(s, d + 1, WhiteSpace)
      ELSE -1

\* length of the match of /^[IVXLCDM]+\.\s*/ in s, or -1
AbbreviationPrefix(s) ==
  LET c == RunEnd(s, 0, Roman) IN
  IF c = 0 THEN -1
  ELSE IF c < Len(s) /\ s[c + 1] = "."
  THEN RunEnd(s, c + 1, WhiteSpace)
  ELSE -1

\* get description() of Cid10Chapter
description(rec) ==
  LET c == Column(rec, ChapterDESCRIPTION) IN
  IF c = Undefined THEN TypeError
  ELSE IF DescriptionPrefix(c) < 0 THEN c
  ELSE slice(c, DescriptionPrefix(c), Len(c))

\* get abbreviation() of Cid10Chapter
abbreviation(rec) ==
  LET c == Column(rec, ChapterABBREVIATION) IN
  IF c = Undefined THEN TypeError
  ELSE IF AbbreviationPrefix(c) < 0 THEN c
  ELSE slice(c, AbbreviationPrefix(c), Len(c))

\* variant of excluded: without `|| undefined` before the split
excludedNoGuard(rec, idx) ==
  LET c == Column(rec, idx) IN
  IF c = Undefined THEN <<>> ELSE split(c, <<",">>)

\* get excluded() of Cid10Category and Cid10Subcategory, idx being the
\* class's EXCLUDED: (this.$columns[idx] || undefined)?.split(',') || []
excluded(rec, idx) ==
  LET c == Column(rec, idx)
      v == IF c = Undefined \/ c = <<>> THEN Undefined ELSE c
  IN  IF v = Undefined THEN <<>> ELSE split(v, <<",">>)

ExcludedIndex(class) ==
  IF class = "Cid10Category" THEN CategoryEXCLUDED ELSE SubcategoryEXCLUDED

\* lines of the tables: columns joined with ";"
RECURSIVE JoinColumns(_)
JoinColumns(cols) ==
  IF cols = <<>> THEN <<>>
  ELSE IF Len(cols) = 1 THEN cols[1]
  ELSE cols[1] \o <<";">> \o JoinColumns(Tail(cols))

RECURSIVE Concat(_)
Concat(ss) == IF ss = <<>> THEN <<>> ELSE Head(ss) \o Concat(Tail(ss))

Filler(n) == [i \in 1 .. n |-> <<"x">>]

\* texts of the EXCLUIDOS column
ExcludedTexts ==
  { <<>>, <<"A">>, <<"A", ",", "B">>, <<",">>, <<"A", ",">>, <<",", "B">>,
    <<"A", ",", "B", ",", "C">>, <<" ">> }

\* lines of CID-10-CATEGORIAS.CSV and CID-10-SUBCATEGORIAS.CSV: the columns
\* before EXCLUIDOS, all or some of them, and the EXCLUIDOS column
ExcludedRows(class) ==
  { JoinColumns(Filler(ExcludedIndex(class)) \o <<t>>) : t \in ExcludedTexts }
  \cup { JoinColumns(Filler(n)) : n \in 0 .. ExcludedIndex(class) }

\* pieces of the DESCRICAO and DESCRABREV columns of CID-10-CAPITULOS.CSV
Segments ==
  { Capitulo \o <<" ", "I", " ", "-", " ">>,
    Capitulo \o <<" ", " ", "I", "V", "-">>,
    Capitulo,
    <<"I", ".", " ">>,
    <<"X", "I", ".">>,
    <<"I">>,
    <<" ">>,
    <<"x">> }

ChapterTexts ==
  { Concat(ss) :
      ss \in UNION { [1 .. n -> Segments] : n \in 0 .. MaxSegments } }

ChapterRows ==
  { JoinColumns(Filler(ChapterDESCRIPTION) \o <<t, <<"x">>>>) :
      t \in ChapterTexts }
  \cup { JoinColumns(Filler(ChapterDESCRIPTION) \o <<<<"x">>, t>>) :
           t \in ChapterTexts }
  \cup { JoinColumns(Filler(n)) : n \in 1 .. ChapterDESCRIPTION }

TableRows(class) ==
  IF class = "Cid10Chapter" THEN ChapterRows ELSE ExcludedRows(class)

\* new Cid10Chapter(row), new Cid10Category(row), new Cid10Subcategory(row):
\* the constructor is CidRecord's
Construct ==
  /\ record = NoRecord
  /\ \E class \in {"Cid10Chapter", "Cid10Category", "Cid10Subcategory"} :
       \E row \in TableRows(class) :
         record' = [class |-> class, row |-> row,
                    columns |-> CidRecord(row).columns]
  /\ UNCHANGED <<content, Factory, stream, pos, streamError, streamEnd,
                 buffer, rowsQueue, breakLoop, skip, queue, rows, pc,
                 yielded, calls, raises, splitBrk, latePulls, immediates,
                 polls, other, result>>

\* record.excluded
GetExcluded ==
  /\ record.class \in {"Cid10Category", "Cid10Subcategory"}
  /\ result' = [accessor |-> "excluded",
                value |-> excluded(record, ExcludedIndex(record.class))]
  /\ UNCHANGED <<first, other, record>>

\* record.description
GetDescription ==
  /\ record.class = "Cid10Chapter"
  /\ result' = [accessor |-> "description", value |-> description(record)]
  /\ UNCHANGED <<first, other, record>>

\* record.abbreviation
GetAbbreviation ==
  /\ record.class = "Cid10Chapter"
  /\ result' = [accessor |-> "abbreviation", value |-> abbreviation(record)]
  /\ UNCHANGED <<first, other, record>>

RecordsInit == Init /\ content = <<>> /\ Factory = "CidRecord"

RecordsNext == Construct \/ GetExcluded \/ GetDescription \/ GetAbbreviation

SpecRecords == RecordsInit /\ [][RecordsNext]_vars

(***************************************************************************)
(* Reference definitions for the properties: the structure of a text,      *)
(* found by one scan from left to right, independent of any chunking.      *)
(***************************************************************************)
StartsWithBreak(s) ==
  Len(s) >= Len(LINEBRK) /\ SubSeq(s, 1, Len(LINEBRK)) = LINEBRK

RECURSIVE LinesFrom(_, _)
LinesFrom(s, cur) ==
  IF s = <<>> THEN <<>>
  ELSE IF StartsWithBreak(s)
  THEN <<cur>> \o LinesFrom(SubSeq(s, Len(LINEBRK) + 1, Len(s)), <<>>)
  ELSE LinesFrom(Tail(s), Append(cur, Head(s)))

\* the lines of s that are followed by a line break, in order
LinesOf(s) == LinesFrom(s, <<>>)

RECURSIVE RestFrom(_, _)
RestFrom(s, cur) ==
  IF s = <<>> THEN cur
  ELSE IF StartsWithBreak(s)
  THEN RestFrom(SubSeq(s, Len(LINEBRK) + 1, Len(s)), <<>>)
  ELSE RestFrom(Tail(s), Append(cur, Head(s)))

\* the text of s after its last line break
TailText(s) == RestFrom(s, <<>>)

DropFirst(ls) == IF ls = <<>> THEN <<>> ELSE Tail(ls)
Rows(ls) == [i \in 1 .. Len(ls) |-> CidRecord(ls[i])]
IsPrefix(a, b) == Len(a) <= Len(b) /\ SubSeq(b, 1, Len(a)) = a
Range(f) == { f[i] : i \in DOMAIN f }
Finished == pc \in {"done", "failed"}

\* the text delivered by the stream so far
Delivered == SubSeq(content, 1, pos)

\* the records the code yields when the whole text arrives as one chunk
OneChunkRows(text) ==
  LET st == read([buffer |-> <<>>, rowsQueue |-> <<>>], text)
      lines == IF st.rowsQueue = <<>> THEN <<>>
               ELSE split(st.rowsQueue[1], LINEBRK)
  IN  Rows(DropFirst(lines))

(***************************************************************************)
(* C1  Chunk-boundary independence: whatever the chunk boundaries and the  *)
(* interleaving of chunk callbacks with pulls, a run that completes        *)
(* normally has yielded the records that the delivery of the content as    *)
(* one single chunk yields; so any two chunkings yield the same sequence.  *)
(***************************************************************************)
ChunkBoundaryIndependence ==
  pc = "done" => yielded = OneChunkRows(content)

\* a run with two different rows completed after a chunk boundary fell
\* inside a line break
ChunkBoundaryWitness ==
  /\ pc = "done"
  /\ splitBrk
  /\ Len(yielded) >= 2
  /\ yielded[1] # yielded[2]

(***************************************************************************)
(* C2  Header skip: the k-th line passed to the row parser is the          *)
(* (k+1)-th terminated line of the content; the first line is never passed *)
(* to the parser nor yielded, and no later line is skipped over.           *)
(***************************************************************************)
HeaderSkip ==
  /\ IsPrefix(calls, DropFirst(LinesOf(content)))
  /\ Len(yielded) <= Len(calls)
  /\ \A i \in 1 .. Len(yielded) : yielded[i] = CidRecord(calls[i])
  /\ skip => calls = <<>>

\* the header is longer than a chunk and equal to a line that was yielded
HeaderSkipWitness ==
  /\ Len(LinesOf(content)) >= 3
  /\ Len(LinesOf(content)[1]) + Len(LINEBRK) > MaxChunk
  /\ LinesOf(content)[2] = LinesOf(content)[1]
  /\ Len(yielded) >= 2

(***************************************************************************)
(* C3  Complete, ordered result: a run that completes normally has read    *)
(* the whole content and has yielded exactly the terminated lines other    *)
(* than the first, once each and in file order; their number is the number *)
(* of line breaks minus one (zero without line break); with a parser that  *)
(* does not throw, a run without source error never ends with an error.    *)
(***************************************************************************)
CompleteOrderedResult ==
  LET n == Cardinality(Occurrences(content, LINEBRK)) IN
  /\ pc = "done" =>
       /\ streamEnd /\ pos = Len(content)
       /\ calls = DropFirst(LinesOf(content))
       /\ yielded = Rows(DropFirst(LinesOf(content)))
       /\ Len(yielded) = IF n = 0 THEN 0 ELSE n - 1
       /\ raises = <<>>
  /\ (pc = "failed" /\ Factory = "CidRecord") => streamError # NoError

\* three lines in more than one batch, completed normally
CompleteOrderedWitness ==
  /\ pc = "done"
  /\ Len(LinesOf(content)) = 3
  /\ LinesOf(content)[2] # LinesOf(content)[3]
  /\ TailText(content) = <<>>
  /\ breakLoop

(***************************************************************************)
(* C4  (as claimed) When the generator fails with the source error, the    *)
(* consumer has received the rows of every batch produced before the       *)
(* failure: all terminated lines of the delivered text but the header.     *)
(***************************************************************************)
ErrorAfterAllQueuedBatches ==
  (Factory = "CidRecord" /\ raises = <<EIO>>) =>
     yielded = Rows(DropFirst(LinesOf(Delivered)))

(***************************************************************************)
(* C5  A source error is surfaced exactly once and never lost: the         *)
(* generator does not complete normally in a step taken with the error     *)
(* flag set, at most one error is ever thrown to the consumer, and with    *)
(* the repository's row parsers (which do not throw) a failed generator    *)
(* has thrown the source error.                                            *)
(***************************************************************************)
NoLateCompletion == (streamError # NoError /\ pc # "done") => pc' # "done"

SourceErrorSurfacedOnce ==
  /\ [](Len(raises) <= 1)
  /\ []((Factory = "CidRecord" /\ pc = "failed") => raises = <<EIO>>)
  /\ [](pc = "done" => raises = <<>>)
  /\ [][NoLateCompletion]_vars

\* the error arrived after the last batch was dequeued and was thrown
SourceErrorWitness ==
  /\ raises = <<EIO>>
  /\ breakLoop
  /\ Len(yielded) >= 1
  /\ latePulls = MaxLatePulls

(***************************************************************************)
(* C6  No row after the error: once the source error has been thrown to    *)
(* the consumer the generator is finished; no later step yields a row,     *)
(* calls the parser or throws again.                                       *)
(***************************************************************************)
FrozenAfter(err) ==
  err \in Range(raises) =>
    /\ pc = "failed" /\ pc' = "failed"
    /\ yielded' = yielded
    /\ calls' = calls
    /\ raises' = raises

NoRowAfterError == [][FrozenAfter(EIO)]_vars

\* a pull made after the error was thrown, with lines still unread
NoRowAfterErrorWitness ==
  /\ EIO \in Range(raises)
  /\ latePulls >= 1
  /\ Len(yielded) >= 1
  /\ Len(yielded) < Len(LinesOf(Delivered)) - 1

(***************************************************************************)
(* C7  A trailing line without line break is dropped: when the content     *)
(* does not end with a line break, the parser is never called more often   *)
(* than there are terminated lines after the header, and a run that        *)
(* completes normally has yielded those lines only; the text after the     *)
(* last line break stays in the buffer and is not yielded.                 *)
(***************************************************************************)
TrailingLineDropped ==
  TailText(content) # <<>> =>
    /\ Len(calls) <= Len(DropFirst(LinesOf(content)))
    /\ pc = "done" =>
         /\ buffer = TailText(content)
         /\ yielded = Rows(DropFirst(LinesOf(content)))
         /\ ~breakLoop

\* a normal completion with the unterminated last line left in the buffer
TrailingLineWitness ==
  /\ pc = "done"
  /\ buffer = <<"c">>
  /\ Len(yielded) = 2

(***************************************************************************)
(* C8  Content without any line break yields nothing: no batch is ever     *)
(* queued, the parser is never called, nothing is yielded, and the run     *)
(* ends with an error only if the source failed.                           *)
(***************************************************************************)
NoTerminatorNoRows ==
  Occurrences(content, LINEBRK) = {} =>
    /\ rowsQueue = <<>> /\ queue = <<>> /\ rows = <<>>
    /\ calls = <<>> /\ yielded = <<>>
    /\ Finished => (IF streamError = NoError
                    THEN pc = "done" /\ streamEnd /\ raises = <<>>
                    ELSE raises \in {<<>>, <<EIO>>})

\* a header without line break, read in several chunks, completed normally
NoTerminatorWitness ==
  /\ content = <<";", "CR">>
  /\ buffer = content
  /\ pc = "done"
  /\ latePulls = MaxLatePulls

(***************************************************************************)
(* C9  The sentinel is never observable: no error thrown to the consumer   *)
(* is SKIPERR, and a wait that is rejected with SKIPERR (no error, empty   *)
(* queue, source ended), in a setImmediate callback or directly in the     *)
(* pull that reaches the wait, ends in normal completion.                  *)
(***************************************************************************)
SentinelRejects(st) ==
  st.streamError = NoError /\ Len(st.rowsQueue) = 0 /\ st.streamEnd

\* the generator is at, or its next step reaches, a check of the wait
AtWait ==
  \/ pc = "waiting"
  \/ pc = "yielded" /\ rows = <<>> /\ queue = <<>> /\ ~breakLoop

SentinelEndsNormally ==
  (AtWait /\ pc' # pc /\ pc' # "returned" /\ SentinelRejects(Self))
    => (pc' = "done" /\ raises' = raises /\ yielded' = yielded)

SentinelNeverObservable ==
  /\ [](SKIPERR \notin Range(raises))
  /\ [][SentinelEndsNormally]_vars

\* a wait was rejected with the sentinel after rows had been yielded
SentinelWitness ==
  /\ pc = "done"
  /\ ~breakLoop
  /\ streamError = NoError
  /\ Len(yielded) >= 1

(***************************************************************************)
(* C10  A failure of the row parser ends the sequence at that row: the     *)
(* step that passes a rejected line to the parser throws the parser's      *)
(* exception and yields nothing, the rows yielded before are the results   *)
(* of the earlier calls, and afterwards nothing is yielded and the         *)
(* generator stays failed.                                                 *)
(***************************************************************************)
ParserFailurePropagates ==
  /\ [](\A i \in 1 .. Len(calls) :
          IF FactoryThrows(Factory, calls[i])
          THEN /\ i = Len(calls) /\ Len(yielded) = i - 1
               /\ pc = "failed" /\ raises = <<ParseError>>
          ELSE /\ i <= Len(yielded) /\ yielded[i] = CidRecord(calls[i]))
  /\ [][FrozenAfter(ParseError)]_vars

\* the parser rejected the third line after the second was yielded
ParserFailureWitness ==
  /\ raises = <<ParseError>>
  /\ Len(yielded) = 1
  /\ Len(LinesOf(content)) = 3
  /\ latePulls = MaxLatePulls

(***************************************************************************)
(* C11  Instance independence: when two calls read the same content with   *)
(* their events interleaved, every step changes the state of at most one   *)
(* call (buffer, queue, flags, skip flag, position of the other are        *)
(* untouched), the lines each call passes to its parser are the lines      *)
(* after the header of what its own stream delivered, and each call that   *)
(* completes has yielded the rows of the whole content, as a single call.  *)
(***************************************************************************)
FirstCall ==
  <<streamError, streamEnd, buffer, rowsQueue, breakLoop, skip, queue, rows,
    pc, yielded, calls, raises, immediates, stream, pos>>

OneCallPerStep == FirstCall' = FirstCall \/ other' = other

InstanceIndependence ==
  /\ [][OneCallPerStep]_vars
  /\ [](IsPrefix(calls, DropFirst(LinesOf(Delivered))))
  /\ [](IsPrefix(other.calls,
                 DropFirst(LinesOf(SubSeq(content, 1, other.pos)))))
  /\ [](pc = "done" => yielded = Rows(DropFirst(LinesOf(content))))
  /\ [](other.pc = "done" =>
          other.yielded = Rows(DropFirst(LinesOf(content))))

\* both calls are under way at different positions, each has yielded a row
InstanceIndependenceWitness ==
  /\ pc = "yielded" /\ other.pc = "yielded"
  /\ Len(yielded) = 1 /\ Len(other.yielded) = 1
  /\ pos # other.pos
  /\ buffer # other.buffer
  /\ other.stream = "open" /\ stream = "ended"

(***************************************************************************)
(* C12  (as claimed) Early cancellation closes the resource: after the     *)
(* consumer has returned from the sequence early, no chunk callback runs   *)
(* any more: position, buffer and queue stop changing.                     *)
(***************************************************************************)
QuietAfterReturn ==
  pc = "returned" =>
    (pos' = pos /\ buffer' = buffer /\ rowsQueue' = rowsQueue)

ClosedOnEarlyReturn == [][QuietAfterReturn]_vars

(***************************************************************************)
(* C13  With the default row parser, the columns of each yielded record    *)
(* are the pieces of the line between its ";" characters, in order and     *)
(* unchanged (white space included, nothing unescaped): one column more    *)
(* than the line has ";", no column holds a ";", and the columns joined    *)
(* with ";" give back the line.                                            *)
(***************************************************************************)
RECURSIVE FieldsFrom(_, _)
FieldsFrom(s, cur) ==
  IF s = <<>> THEN <<cur>>
  ELSE IF Head(s) = ";" THEN <<cur>> \o FieldsFrom(Tail(s), <<>>)
  ELSE FieldsFrom(Tail(s), Append(cur, Head(s)))

RECURSIVE JoinFields(_)
JoinFields(fs) ==
  IF Len(fs) = 1 THEN fs[1] ELSE fs[1] \o <<";">> \o JoinFields(Tail(fs))

Count(s, c) == Cardinality({ i \in 1 .. Len(s) : s[i] = c })

RawFields ==
  Factory = "CidRecord" =>
    \A i \in 1 .. Len(yielded) :
      LET cols == yielded[i].columns
          line == DropFirst(LinesOf(content))[i]
      IN  /\ cols = FieldsFrom(line, <<>>)
          /\ Len(cols) = Count(line, ";") + 1
          /\ \A k \in 1 .. Len(cols) : Count(cols[k], ";") = 0
          /\ JoinFields(cols) = line

\* a yielded record with two columns, the second being white space only
RawFieldsWitness ==
  /\ Factory = "CidRecord"
  /\ \E i \in 1 .. Len(yielded) : yielded[i].columns = << <<"b">>, <<"CR">> >>
  /\ \E i \in 1 .. Len(yielded) : yielded[i].columns = << <<>> >>

(***************************************************************************)
(* C14  The `excluded` accessor of Cid10Category and Cid10Subcategory      *)
(* always gives an array: the items of the EXCLUIDOS column between its    *)
(* commas, in order, when the column is not empty, and the empty array     *)
(* when the column is empty or absent; never undefined, never an array     *)
(* holding just one empty string.                                          *)
(***************************************************************************)
RECURSIVE ItemsFrom(_, _)
ItemsFrom(s, cur) ==
  IF s = <<>> THEN <<cur>>
  ELSE IF Head(s) = "," THEN <<cur>> \o ItemsFrom(Tail(s), <<>>)
  ELSE ItemsFrom(Tail(s), Append(cur, Head(s)))

\* the text of column number idx (from 0) of a line, empty when absent
ColumnText(row, idx) ==
  IF idx + 1 <= Len(FieldsFrom(row, <<>>))
  THEN FieldsFrom(row, <<>>)[idx + 1]
  ELSE <<>>

ExcludedIsArray ==
  result.accessor = "excluded" =>
    LET idx == IF record.class = "Cid10Category" THEN 5 ELSE 7
        text == ColumnText(record.row, idx)
    IN  /\ result.value # Undefined
        /\ result.value # << <<>> >>
        /\ result.value = IF text = <<>> THEN <<>> ELSE ItemsFrom(text, <<>>)

\* the accessor was read on a subcategory with an empty EXCLUIDOS column
ExcludedIsArrayWitness ==
  /\ result.accessor = "excluded"
  /\ record.class = "Cid10Subcategory"
  /\ Len(record.columns) = 8
  /\ record.columns[8] = <<>>
  /\ result.value = <<>>

(***************************************************************************)
(* C15  (as claimed) The description of a chapter does not begin with a    *)
(* prefix "Capítulo <roman numeral> - " and its abbreviation does not      *)
(* begin with a prefix "<roman numeral>. ": the pattern that was stripped  *)
(* does not match the value returned.                                      *)
(***************************************************************************)
PrefixStripped ==
  /\ (result.accessor = "description" /\ result.value # TypeError)
       => DescriptionPrefix(result.value) < 0
  /\ (result.accessor = "abbreviation" /\ result.value # TypeError)
       => AbbreviationPrefix(result.value) < 0

(***************************************************************************)
(* Steps of the generator at its wait.                                     *)
(***************************************************************************)
\* the step runs the generator (it is no stream event and no return())
GeneratorStep == pos' = pos /\ stream' = stream /\ pc' # "returned"

\* the step performs a check of the wait: the first next(), a setImmediate
\* callback, or a next() that finds nothing left of the batches it holds
CheckStep == pc = "start" \/ (AtWait /\ GeneratorStep)

\* the number of lines taken from the batches so far, header included
Taken == Len(calls) + (IF skip THEN 0 ELSE 1)

RECURSIVE LinesOfBatches(_)
LinesOfBatches(q) ==
  IF q = <<>> THEN <<>>
  ELSE LinesOf(Head(q) \o LINEBRK) \o LinesOfBatches(Tail(q))

(***************************************************************************)
(* C16  Error priority: a check of the wait made while the error flag is   *)
(* set fails the pull with that error at once, whatever is queued and      *)
(* whether or not the source has ended, and takes nothing from the queue.  *)
(***************************************************************************)
ErrorFirst ==
  (pc = "waiting" /\ streamError # NoError /\ GeneratorStep) =>
    /\ pc' = "failed"
    /\ raises' = Append(raises, streamError)
    /\ rowsQueue' = rowsQueue
    /\ UNCHANGED <<queue, rows, skip, breakLoop, yielded, calls>>

ErrorPriority == [][ErrorFirst]_vars

\* the first wait failed with two batches queued and never dequeued
ErrorPriorityWitness ==
  /\ raises = <<EIO>>
  /\ skip
  /\ Len(rowsQueue) >= 2
  /\ ~streamEnd

(***************************************************************************)
(* C17  FIFO hand-over: a check of the wait made with no error and a       *)
(* non-empty queue takes all queued batches and leaves the queue empty;    *)
(* at every moment the lines delivered so far are, in file order, the      *)
(* lines already taken, then those of the batches in hand, then those of   *)
(* the batches queued: no batch is handed over twice, lost or reordered.   *)
(***************************************************************************)
TakesAll ==
  (CheckStep /\ streamError = NoError /\ rowsQueue # <<>>) =>
    /\ rowsQueue' = <<>>
    /\ Taken' > Taken
    /\ breakLoop' = (buffer = <<>> /\ streamEnd)
    /\ LinesOfBatches(rowsQueue)
         = SubSeq(LinesOf(Delivered), Taken + 1, Taken' )
             \o rows' \o LinesOfBatches(queue')

InOrder ==
  SubSeq(LinesOf(Delivered), Taken + 1, Len(LinesOf(Delivered)))
    = rows \o LinesOfBatches(queue) \o LinesOfBatches(rowsQueue)

FifoHandOver == [][TakesAll]_vars /\ []InOrder

\* three batches were handed over at once: the header's was skipped, a row
\* of the second is yielded and the third is in hand
FifoHandOverWitness ==
  /\ pc = "yielded"
  /\ Len(yielded) = 1
  /\ queue # <<>>
  /\ rowsQueue = <<>>
  /\ stream = "open"

(***************************************************************************)
(* C18  Cooperative wait: a check of the wait made with no error, an       *)
(* empty queue and a source that has not ended settles nothing and         *)
(* changes none of buffer, queue and flags; it leaves exactly one          *)
(* setImmediate callback scheduled and the generator waiting, so that      *)
(* stream callbacks can run before the next check.                         *)
(***************************************************************************)
Reschedules ==
  (CheckStep /\ streamError = NoError /\ rowsQueue = <<>> /\ ~streamEnd) =>
    /\ pc' = "waiting"
    /\ immediates' = 1
    /\ pc = "waiting" => polls' = polls + 1
    /\ UNCHANGED <<buffer, rowsQueue, streamEnd, streamError, breakLoop,
                   skip, queue, rows, yielded, calls, raises>>

CooperativeWait ==
  /\ [][Reschedules]_vars
  /\ [](pc = "waiting" => immediates = 1)

\* a 'data' callback ran between the first check and a rescheduled one
CooperativeWaitWitness ==
  /\ pc = "waiting"
  /\ polls = MaxPolls
  /\ skip
  /\ pos > 0
  /\ buffer # <<>>

(***************************************************************************)
(* C19  No partial row: the lines passed to the parser so far, and so the  *)
(* rows yielded, are lines whose full line break is within the text        *)
(* delivered so far; the text after the last delivered line break is      *)
(* never taken, also when a chunk ends after ";" or ";CR".                 *)
(***************************************************************************)
NoPartialRow ==
  /\ Taken <= Len(LinesOf(Delivered))
  /\ IsPrefix(calls, DropFirst(LinesOf(Delivered)))
  /\ \A i \in 1 .. Len(yielded) :
       yielded[i] = CidRecord(LinesOf(Delivered)[i + 1])

\* a row was yielded and the next line is cut inside its line break
NoPartialRowWitness ==
  /\ Len(yielded) >= 1
  /\ Taken = Len(LinesOf(Delivered))
  /\ InsideBreak(pos)
  /\ Len(buffer) >= 3
  /\ pc = "waiting"

(***************************************************************************)
(* C20  Buffer invariant: the buffer never holds a complete line break;    *)
(* it is the text delivered after the last complete line break, at most    *)
(* one partial line.                                                       *)
(***************************************************************************)
BufferInvariant ==
  /\ Occurrences(buffer, LINEBRK) = {}
  /\ buffer = TailText(Delivered)

\* a chunk completed two lines at once and left a partial line break
BufferInvariantWitness ==
  /\ rowsQueue # <<>>
  /\ Len(LinesOf(rowsQueue[Len(rowsQueue)] \o LINEBRK)) >= 2
  /\ Len(buffer) >= 2
  /\ SubSeq(buffer, Len(buffer) - 1, Len(buffer)) = <<";", "CR">>
(***************************************************************************)
(* Steps of the 'data' callback.                                           *)
(***************************************************************************)
\* the step delivers a chunk
ChunkStep == pos' > pos

\* the old buffer followed by the chunk the step delivers
Combined == buffer \o SubSeq(content, pos + 1, pos')

(***************************************************************************)
(* C21  A chunk that makes buffer + chunk hold a line break appends        *)
(* exactly one batch to the queue: the combined text before its last line  *)
(* break; the buffer becomes the text after that line break; the lines of  *)
(* the batch are the lines the chunk completed, in file order.             *)
(***************************************************************************)
OneBatch ==
  (ChunkStep /\ Occurrences(Combined, LINEBRK) # {}) =>
    /\ Len(rowsQueue') = Len(rowsQueue) + 1
    /\ SubSeq(rowsQueue', 1, Len(rowsQueue)) = rowsQueue
    /\ LET batch == rowsQueue'[Len(rowsQueue')] IN
       /\ batch \o LINEBRK \o buffer' = Combined
       /\ Occurrences(buffer', LINEBRK) = {}
       /\ LinesOf(batch \o LINEBRK)
            = SubSeq(LinesOf(SubSeq(content, 1, pos')),
                     Len(LinesOf(Delivered)) + 1,
                     Len(LinesOf(SubSeq(content, 1, pos'))))

BatchPerChunk == [][OneBatch]_vars

\* the second batch queued holds two lines, completed by one chunk
BatchPerChunkWitness ==
  /\ Len(rowsQueue) = 2
  /\ Len(LinesOf(rowsQueue[2] \o LINEBRK)) = 2
  /\ buffer = <<"c">>
  /\ pc = "waiting"
  /\ skip

(***************************************************************************)
(* C22  A chunk that leaves buffer + chunk without a line break produces   *)
(* no batch: the queue and the flags streamEnd, streamError and breakLoop  *)
(* keep their values and the buffer becomes the old buffer followed by     *)
(* the chunk.                                                              *)
(***************************************************************************)
Absorbed ==
  (ChunkStep /\ Occurrences(Combined, LINEBRK) = {}) =>
    /\ buffer' = Combined
    /\ UNCHANGED <<rowsQueue, streamEnd, streamError, breakLoop>>

ChunkAbsorbed == [][Absorbed]_vars

\* two chunks were absorbed, the first cut inside a line break
ChunkAbsorbedWitness ==
  /\ buffer = <<"b", ";", "CR", ";", "CR">>
  /\ splitBrk
  /\ rowsQueue = <<>>
  /\ pos = Len(buffer)
(***************************************************************************)
(* C23  Termination: with a read stream that reaches 'end' or 'error', an  *)
(* event loop that runs the rescheduled checks and a consumer that keeps   *)
(* pulling, the generator eventually finishes, normally or with an error;  *)
(* a check made once the stream has ended or failed never reschedules      *)
(* itself.                                                                 *)
(***************************************************************************)
NoPollAfterEnd ==
  (pc = "waiting" /\ (streamEnd \/ streamError # NoError) /\ GeneratorStep)
    => pc' \in {"yielded", "done", "failed"}

Termination ==
  /\ <>(pc \in {"done", "failed"})
  /\ [][NoPollAfterEnd]_vars

\* the generator finished through a check made after 'end' that found
\* nothing queued, a row yielded before
TerminationWitness ==
  /\ pc = "done"
  /\ ~breakLoop
  /\ streamEnd
  /\ Len(yielded) = 1
  /\ buffer = <<"c">>
(***************************************************************************)
(* C24  Normal completion only after 'end': while the stream has neither   *)
(* ended nor failed and no batch is queued, a pull suspended in the wait   *)
(* stays suspended (it is neither answered as done nor failed), so the     *)
(* generator is finished normally only in states where streamEnd is set.   *)
(***************************************************************************)
StaysPending ==
  (pc = "waiting" /\ ~streamEnd /\ streamError = NoError /\ rowsQueue = <<>>
     /\ GeneratorStep)
    => (pc' = "waiting" /\ raises' = raises /\ yielded' = yielded)

DoneOnlyAfterEnd ==
  /\ [][StaysPending]_vars
  /\ [](pc = "done" => streamEnd)
  /\ [](pc \in {"done", "failed"} => stream # "open" \/ raises = <<ParseError>>)

\* the whole file was delivered and a row yielded, 'end' has not come: the
\* pull is suspended and its check has been rescheduled
DoneOnlyAfterEndWitness ==
  /\ pc = "waiting"
  /\ stream = "open"
  /\ pos = Len(content)
  /\ rowsQueue = <<>>
  /\ polls = MaxPolls
  /\ Len(yielded) >= 1
(***************************************************************************)
(* C25  Rows in hand are yielded after the error: streamError is looked    *)
(* at only in a wait check, in the while condition and after the loop, so  *)
(* a next() made with streamError set and lines of dequeued batches left   *)
(* passes the next of those lines to the parser; the error is raised by    *)
(* the next() that finds none left.                                        *)
(***************************************************************************)
InHand == rows \o LinesOfBatches(queue)

DrainsBeforeError ==
  (pc = "yielded" /\ streamError # NoError /\ GeneratorStep) =>
    IF InHand # <<>>
    THEN /\ calls' = Append(calls, Head(InHand))
         /\ rows' \o LinesOfBatches(queue') = Tail(InHand)
         /\ IF FactoryThrows(Factory, Head(InHand))
            THEN pc' = "failed" /\ raises' = Append(raises, ParseError)
            ELSE /\ pc' = "yielded"
                 /\ yielded' = Append(yielded, CidRecord(Head(InHand)))
                 /\ raises' = raises
    ELSE /\ pc' = "failed"
         /\ raises' = Append(raises, streamError)
         /\ UNCHANGED <<yielded, calls>>

DequeuedRowsSurviveError == [][DrainsBeforeError]_vars

\* the error came after the first row of a batch was yielded and before
\* 'end'; a line of that batch is still in hand
DequeuedRowsSurviveErrorWitness ==
  /\ pc = "yielded"
  /\ streamError = EIO
  /\ ~streamEnd
  /\ rows # <<>>
  /\ Len(yielded) = 1
  /\ raises = <<>>
(***************************************************************************)
(* C26  No backpressure: while the stream is open and has text left, the   *)
(* 'data' callback can run whatever the length of rowsQueue and wherever   *)
(* the generator is, and it never shortens rowsQueue; with a consumer      *)
(* that does not pull, every line of the file ends up queued.              *)
(***************************************************************************)
QueueGrows == ChunkStep => Len(rowsQueue') >= Len(rowsQueue)

NoBackpressure ==
  /\ [](stream = "open" /\ pos < Len(content) => ENABLED Data)
  /\ [][QueueGrows]_vars

\* as many batches queued as the file has lines, none taken, and the
\* stream still delivering
NoBackpressureWitness ==
  /\ Len(rowsQueue) = MaxLines
  /\ skip
  /\ pc = "waiting"
  /\ stream = "open"
  /\ pos < Len(content)
(***************************************************************************)
(* C27  Lazy start: a call that has not been pulled yet has no read        *)
(* stream, no text delivered, nothing buffered or queued, no flag set and  *)
(* no callback scheduled, whatever another call does meanwhile; the read   *)
(* stream is created by the step of the first next().                      *)
(***************************************************************************)
Unstarted(st) ==
  /\ st.stream = "unopened"
  /\ st.pos = 0
  /\ st.buffer = <<>>
  /\ st.rowsQueue = <<>>
  /\ ~st.streamEnd
  /\ st.streamError = NoError
  /\ st.immediates = 0

OpensOnFirstPull ==
  /\ (stream = "unopened" /\ stream' # stream)
       => (pc = "start" /\ pc' # "start" /\ stream' = "open")
  /\ (other.stream = "unopened" /\ other.stream' # other.stream)
       => (other.pc = "start" /\ other.pc' # "start" /\ other.stream' = "open")

LazyStart ==
  /\ [](pc = "start"
          => Unstarted([stream |-> stream, pos |-> pos, buffer |-> buffer,
                        rowsQueue |-> rowsQueue, streamEnd |-> streamEnd,
                        streamError |-> streamError,
                        immediates |-> immediates]))
  /\ [](other.pc = "start" => Unstarted(other))
  /\ [][OpensOnFirstPull]_vars

\* one call was made and never pulled while the other call, made after it,
\* was iterated to its end
LazyStartWitness ==
  /\ pc = "start"
  /\ other.pc = "done"
  /\ Len(other.yielded) >= 1
(***************************************************************************)
(* C28  Conservation: the text delivered so far is the lines already       *)
(* taken from the batches, then the batches in hand, then the batches      *)
(* queued, each line and batch followed by one line break, then the        *)
(* buffer; no character is lost, duplicated or moved.                      *)
(***************************************************************************)
\* the first line, once it has been skipped
SkippedHeader ==
  IF skip THEN <<>> ELSE <<LinesOf(Delivered)[1]>>

Conservation ==
  Join(SkippedHeader \o calls \o rows) \o Join(queue) \o Join(rowsQueue)
     \o buffer
    = Delivered

\* a row was yielded, a batch is queued and a partial line is buffered
ConservationWitness ==
  /\ pc = "yielded"
  /\ Len(calls) = 1
  /\ rowsQueue # <<>>
  /\ buffer # <<>>
(***************************************************************************)
(* C29  One wait at a time, settled once: there is never more than one     *)
(* rescheduled check pending, one is pending exactly while the generator   *)
(* is suspended in the wait, and the check that runs either reschedules    *)
(* itself or settles the wait in exactly one way: reject with the stream   *)
(* error, resolve with the queued batches, or reject with the sentinel.    *)
(***************************************************************************)
OneCheckPending ==
  /\ immediates \in {0, 1}
  /\ immediates = 1 <=> pc = "waiting"

SettlesOneWay ==
  (pc = "waiting" /\ GeneratorStep) =>
    /\ immediates' = (IF pc' = "waiting" THEN 1 ELSE 0)
    /\ Len(raises') <= Len(raises) + 1
    /\ CASE streamError # NoError ->
              /\ pc' = "failed"
              /\ raises' = Append(raises, streamError)
              /\ rowsQueue' = rowsQueue
         [] streamError = NoError /\ rowsQueue # <<>> ->
              /\ rowsQueue' = <<>>
              /\ Taken' > Taken
              /\ SKIPERR \notin Range(raises')
         [] streamError = NoError /\ rowsQueue = <<>> /\ streamEnd ->
              /\ pc' = "done"
              /\ UNCHANGED <<raises, yielded, calls, rowsQueue>>
         [] OTHER ->
              /\ pc' = "waiting"
              /\ UNCHANGED <<raises, yielded, calls, rowsQueue>>

SingleWait == []OneCheckPending /\ [][SettlesOneWay]_vars

\* 'end' came while a check was scheduled, after a row was yielded: the
\* wait is about to be settled with the sentinel
SingleWaitWitness ==
  /\ pc = "waiting"
  /\ immediates = 1
  /\ streamEnd
  /\ streamError = NoError
  /\ rowsQueue = <<>>
  /\ Len(yielded) >= 1
(***************************************************************************)
(* C30  breakLoop: it is set only by a check that takes the queue while    *)
(* streamEnd is set and the buffer is empty, and never reset; while it is  *)
(* set rowsQueue is empty and the stream delivers no more chunks; when     *)
(* the generator has finished normally no batch is left queued or in hand  *)
(* and every line delivered has been taken.                                *)
(***************************************************************************)
BreakSetByLastDequeue ==
  breakLoop' # breakLoop =>
    /\ breakLoop'
    /\ CheckStep
    /\ streamError = NoError
    /\ rowsQueue # <<>> /\ rowsQueue' = <<>>
    /\ streamEnd /\ buffer = <<>>

BreakSkipsNothing ==
  /\ [][BreakSetByLastDequeue]_vars
  /\ [](breakLoop => rowsQueue = <<>> /\ streamEnd /\ buffer = <<>>
                       /\ pos = Len(content) /\ ~ENABLED Data)
  /\ [](pc = "done" => /\ rowsQueue = <<>> /\ queue = <<>> /\ rows = <<>>
                       /\ Taken = Len(LinesOf(content)))

\* the generator left the loop through breakLoop after two rows
BreakSkipsNothingWitness ==
  /\ pc = "done"
  /\ breakLoop
  /\ Len(yielded) = 2
  /\ stream = "ended"
=============================================================================
